---- MODULE Spec2Model ----
(***************************************************************************)
(* A model of wrapspawner.py: WrapSpawner (the delegating proxy),          *)
(* ProfilesSpawner (the selector built on it) and the selectors with a     *)
(* dynamic catalog, DockerProfilesSpawner and CustomSpawner.               *)
(*                                                                         *)
(* Python dicts are objects: `self.child_config = p[3]` makes child_config *)
(* the catalog entry's own dict, and `state['child_conf'] =                *)
(* self.child_config` puts that same dict in the returned blob.  The model *)
(* therefore keeps the configuration bundles in a heap of dict objects and *)
(* lets child_config, the catalog entries and a blob hold addresses.       *)
(***************************************************************************)
EXTENDS Integers, Sequences, FiniteSets, TLC

\* ------------------------------------------------------------------ bounds
\* The non-empty persisted states of a target are 1..MaxPid (0 is the empty dict {}).
MaxPid == 1
\* The files a listing of the profile directory holds at most, when some may be
\* malformed.
MaxFiles == 3

\* ------------------------------------------------------------------- dicts
\* A configuration bundle maps option names to values; 0 stands for "no such key".
OptNames == {"o1", "o2"}
OptVals == 0..2
Dict == [OptNames -> OptVals]
EmptyDict == [k \in OptNames |-> 0]
D(a, b) == [k \in OptNames |-> IF k = "o1" THEN a ELSE b]
\* dict.update(e): e's keys overwrite d's
UpdateDict(d, e) == [k \in OptNames |-> IF e[k] # 0 THEN e[k] ELSE d[k]]

\* ----------------------------------------------------------------- catalog
\* ProfilesSpawner.profiles: (display, key, class, dict).  The dict of entry i is the
\* heap object at address i.  The key "a" occurs twice.
profiles ==
  << [display |-> "A", key |-> "a", cls |-> "ClsA", conf |-> 1],
     [display |-> "B", key |-> "b", cls |-> "ClsB", conf |-> 2],
     [display |-> "A2", key |-> "a", cls |-> "ClsC", conf |-> 3] >>
\* The dict contents the catalog is configured with.
ProfileConf == << D(1, 0), D(0, 1), D(2, 2) >>
\* child_class's default (LocalProcessSpawner)
DefaultClass == "Local"
\* Keys a form or a blob may carry: the catalog's, and one that matches no entry.
Keys == {"a", "b", "zz"}
\* user_options without a 'profile' entry
NoProfile == "<none>"

CatalogAddrs == {profiles[i].conf : i \in 1..Len(profiles)}
\* Addresses: the catalog's dicts, and room for child_config's own dict and a kept
\* blob's.
FirstFree == Len(profiles) + 1
Addr == 1..(FirstFree + 1)

\* ------------------------------------------------------------------- blobs
\* A persisted state blob.  Its 'child_conf' is either a dict object of the heap
\* (conf_addr # 0: a blob get_state() returned and the caller kept) or a dict of its
\* own (conf_val: a blob read back from storage).
NoBlob == [has_conf |-> FALSE, conf_addr |-> 0, conf_val |-> EmptyDict,
           has_state |-> FALSE, child_state |-> 0,
           has_profile |-> FALSE, profile |-> ""]
StoredBlobs ==
  { [has_conf |-> hc, conf_addr |-> 0, conf_val |-> IF hc THEN D(1, 0) ELSE EmptyDict,
     has_state |-> hs, child_state |-> IF hs THEN cs ELSE 0,
     has_profile |-> hp, profile |-> IF hp THEN k ELSE ""] :
      hc \in BOOLEAN, hs \in BOOLEAN, cs \in 1..MaxPid, hp \in BOOLEAN, k \in Keys }

\* ------------------------------------------------------------------ target
\* The live target (child_spawner): id 0 is None.  The proxy holds at most one target
\* and no operation both drops one and makes one, so one id is enough; what tells a
\* new target from the old one is the "init" call in the operation's trace.
\* traits: the target's values of the traits it has in common with the proxy
\* (0: the trait's default); links: the traits the proxy pushes to this target.
NoChild == [cls |-> "None", id |-> 0, kwargs |-> EmptyDict, state |-> 0,
            traits |-> EmptyDict, links |-> {}]
\* One call the proxy made on the target class or the target.
Ev(name, cls, kw, st) == [cls |-> cls, kw |-> kw, st |-> st, ev |-> name]

VARIABLES
  kind,           \* the proxy's class: "Wrap", "Profiles", "Docker" or "Custom"
  child_class,    \* WrapSpawner.child_class
  child_config,   \* WrapSpawner.child_config: the address of a dict
  heap,           \* the dict objects
  child_state,    \* WrapSpawner.child_state
  child_spawner,  \* WrapSpawner.child_spawner
  child_profile,  \* ProfilesSpawner.child_profile
  user_options,   \* Spawner.user_options['profile'], or NoProfile
  saved,          \* a blob get_state() returned and the caller kept, or NoBlob
  taken,          \* the Target Descriptor in effect when the kept blob was taken
  last,           \* the last operation: its name, arguments and return value
  trace,          \* the calls the last operation made on the target
  log,            \* the keys named by the warning-level diagnostics emitted so far
  source,         \* what the external source lists now: image tags, or profile files
  cached,         \* CustomSpawner.profiles: the catalog as it was last loaded
  form,           \* the options form a dynamic Selector produced last; CustomSpawner
                  \* keeps it as the value of its options_form trait
  own             \* the proxy's values of the traits it has in common with a target

vars == << kind, child_class, child_config, heap, child_state, child_spawner,
           child_profile, user_options, saved, taken, last, trace, log, source,
           cached, form, own >>

\* -------------------------------------------------------- dynamic catalogs
\* The image tags the container runtime may list, or the files of the profile
\* directory, and the listings of the model: none, one, or two in either order.
Names == {"x", "y"}
Sources == {<< >>, << "x" >>, << "y" >>, << "x", "y" >>, << "y", "x" >>}
\* DockerProfilesSpawner._docker_profile: "docker-%s" % image
DockerKey(image) == IF image = "x" THEN "docker-x" ELSE "docker-y"
DockerClass == "dockerspawner.SystemUserSpawner"
\* The dict object of an image's entry (spawner_args).
ImageAddr(image) == IF image = "x" THEN 1 ELSE 2
\* DockerProfilesSpawner.default_profiles (default_value=[])
default_profiles == << >>
\* DockerProfilesSpawner._docker_profiles
docker_profiles(tags) ==
  [i \in 1..Len(tags) |->
     [display |-> tags[i], key |-> DockerKey(tags[i]), cls |-> DockerClass,
      conf |-> ImageAddr(tags[i])]]
\* CustomSpawner._load_profiles: prefix + str(count), counted along the listing
SystemKey(count) ==
  IF count = 1 THEN "System:1"
  ELSE IF count = 2 THEN "System:2"
  ELSE IF count = 3 THEN "System:3"
  ELSE "System:4"
BatchClass == "batchspawner.SlurmSpawner"
\* Files open() cannot read, and files with no second line (lines[1] raises).
Unreadable == {"locked"}
TooShort == {"short"}
WellFormed(file) == file \notin Unreadable \cup TooShort
\* The loop of CustomSpawner._load_profiles from the count-th file on.  The one
\* try statement encloses the whole loop: the first file that raises ends the
\* scan, and `except Exception: pass` leaves what was appended so far.
RECURSIVE load_profiles_loop(_, _, _)
load_profiles_loop(files, count, new_profiles) ==
  IF count > Len(files) THEN new_profiles
  ELSE IF ~WellFormed(files[count]) THEN new_profiles
  ELSE load_profiles_loop(files, count + 1,
         Append(new_profiles,
                [display |-> files[count], key |-> SystemKey(count),
                 cls |-> BatchClass, conf |-> count]))
\* CustomSpawner._load_profiles; the dict object of the count-th entry is the
\* one at address count.
custom_profiles(files) == load_profiles_loop(files, 1, << >>)
\* CustomSpawner.profiles default_value
CustomDefault ==
  << [display |-> "Local Notebook Server", key |-> "local", cls |-> DefaultClass,
      conf |-> 3] >>
\* self.profiles as an operation reads it: the static list, the property of
\* DockerProfilesSpawner, or the trait value of CustomSpawner.
self_profiles ==
  IF kind = "Docker" THEN default_profiles \o docker_profiles(source)
  ELSE IF kind = "Custom" THEN cached
  ELSE profiles
\* The keys a form or a blob may carry for a dynamic Selector.
DynKeys ==
  IF kind = "Docker" THEN {DockerKey(n) : n \in Names}
  ELSE {SystemKey(1), SystemKey(2)}

\* ------------------------------------------------ the proxy as one record
\* What an operation returns: an object (a target's id, 0 for None), a blob, or a
\* plain value.
NoRet == [obj |-> 0, blob |-> NoBlob, val |-> "None"]
RetVal(v) == [obj |-> 0, blob |-> NoBlob, val |-> v]

\* The proxy's fields at the start of an operation, with nothing called or returned yet.
Cur ==
  [child_state |-> child_state, child_class |-> child_class,
   child_config |-> child_config, heap |-> heap, child_spawner |-> child_spawner,
   child_profile |-> child_profile, trace |-> << >>, ret |-> NoRet]

\* Dict objects something still refers to.
Refs(cfg, blob) ==
  CatalogAddrs \cup {cfg} \cup (IF blob.conf_addr # 0 THEN {blob.conf_addr} ELSE {})
\* `{}`: a new dict object, at the least address that neither the catalog nor a kept
\* blob refers to (the dict child_config held is garbage once it is replaced).
Alloc(s) ==
  LET free == Addr \ Refs(FirstFree - 1, saved)
  IN CHOOSE a \in free : \A b \in free : a <= b

\* ---------------------------------------------------- the target's own code
\* Spawner.clear_state / load_state / get_state / start of the wrapped class.
child_clear_state(c) == [c EXCEPT !.state = 0]
child_load_state(c, st) == [c EXCEPT !.state = st]
child_get_state(c) == c.state
child_start(c, pid) == [c EXCEPT !.state = pid]

\* What a target's poll() answers: None while it runs, or its exit status.
PollResults == {"child:None", "child:0"}

\* ------------------------------------------------------------- WrapSpawner
\* The state a new target starts with: "initial state will always be wrong since it
\* will see *our* state".  It is none of the states 0..MaxPid a target saves.
WrongState == -1

\* A class whose constructor raises, and a bundle the constructors reject.
BrokenClass == "Broken"
BadConf == D(0, 2)
\* self.child_class(..., **self.child_config) returns an instance.
Instantiable(cls, kw) == cls # BrokenClass /\ kw # BadConf
\* What an operation that raised "returns": the exception.
CtorError == "raise:ConstructorError"
RuntimeError == "raise:RuntimeError"
Errors == {CtorError, RuntimeError}
Raised(s) == s.ret.val \in Errors

\* common_traits: the traits of both, less the keys child_config has now.
common_traits_all(kw) == OptNames
common_traits(kw) == {n \in OptNames : kw[n] = 0}
\* directional_link((self, trait), (self.child_spawner, trait)) for each of them:
\* making the link sets the target's trait to the proxy's value.
link_traits(c, names) ==
  [c EXCEPT !.traits = [n \in OptNames |-> IF n \in names THEN own[n] ELSE @[n]],
            !.links = names]
\* setattr(self, n, v) with the links in place: traitlets notifies the observers
\* of a trait when the new value differs from the old one, and the link's
\* observer then sets the target's trait.
proxy_setattr(c, n, v) ==
  IF c.id # 0 /\ n \in c.links /\ v # own[n] THEN [c EXCEPT !.traits[n] = v] ELSE c
\* setattr(self.child_spawner, n, v): the target has no link back.
child_setattr(c, n, v) == [c EXCEPT !.traits[n] = v]

\* Mutant: a constructor that raises is caught and leaves the proxy without target.
Wrap_construct_child_swallow(s) ==
  IF s.child_spawner.id = 0
  THEN LET kw == s.heap[s.child_config]
       IN [s EXCEPT !.trace = Append(@, Ev("init", s.child_class, kw, 0)),
                    !.child_spawner = IF Instantiable(s.child_class, kw)
                                      THEN [cls |-> s.child_class, id |-> 1,
                                            kwargs |-> kw, state |-> 0,
                                            traits |-> kw, links |-> {}]
                                      ELSE NoChild,
                    !.ret = [obj |-> 0, blob |-> NoBlob, val |-> "child"]]
  ELSE [s EXCEPT !.ret = [obj |-> s.child_spawner.id, blob |-> NoBlob, val |-> "child"]]

\* WrapSpawner.construct_child
Wrap_construct_child(s) ==
  IF s.child_spawner.id = 0 /\ ~Instantiable(s.child_class, s.heap[s.child_config])
  THEN [s EXCEPT !.trace = Append(@, Ev("init", s.child_class,
                                        s.heap[s.child_config], 0)),
                 !.ret = RetVal(CtorError)]
  ELSE IF s.child_spawner.id = 0
  THEN LET kw == s.heap[s.child_config]
           c0 == [cls |-> s.child_class, id |-> 1, kwargs |-> kw,
                  state |-> WrongState, traits |-> kw, links |-> {}]
           c1 == child_clear_state(c0)
           cl == IF s.child_state # 0 THEN child_load_state(c1, s.child_state) ELSE c1
           c2 == link_traits(cl, common_traits(kw))
           t0 == << Ev("init", s.child_class, kw, 0),
                    Ev("clear_state", c0.cls, EmptyDict, 0) >>
           t1 == IF s.child_state # 0
                 THEN << Ev("load_state", c0.cls, EmptyDict, s.child_state) >>
                 ELSE << >>
       IN [s EXCEPT !.child_spawner = c2,
                    !.trace = @ \o t0 \o t1,
                    !.ret = [obj |-> c2.id, blob |-> NoBlob, val |-> "child"]]
  ELSE [s EXCEPT !.ret = [obj |-> s.child_spawner.id, blob |-> NoBlob, val |-> "child"]]

\* Mutant: the loop has no break, so the last entry with the key wins.
RECURSIVE select_from_nobreak(_, _, _)
select_from_nobreak(s, profile, i) ==
  IF i > Len(self_profiles) THEN s
  ELSE select_from_nobreak(IF self_profiles[i].key = profile
                           THEN [s EXCEPT !.child_class = self_profiles[i].cls,
                                          !.child_config = self_profiles[i].conf]
                           ELSE s,
                           profile, i + 1)

\* ProfilesSpawner.select_profile: the loop over self.profiles from entry i on.
RECURSIVE select_from(_, _, _)
select_from(s, profile, i) ==
  IF i > Len(self_profiles) THEN s
  ELSE IF self_profiles[i].key = profile
       THEN [s EXCEPT !.child_class = self_profiles[i].cls,
                      !.child_config = self_profiles[i].conf]
       ELSE select_from(s, profile, i + 1)

\* Mutant: a key that matches no entry puts the default descriptor back.
select_profile_reset(s, profile) ==
  IF \E i \in 1..Len(self_profiles) : self_profiles[i].key = profile
  THEN select_from(s, profile, 1)
  ELSE [s EXCEPT !.child_class = DefaultClass, !.heap[s.child_config] = EmptyDict]

select_profile(s, profile) == select_from(s, profile, 1)

\* Mutant: the target is instantiated first and the selection applied afterwards.
Profiles_construct_child_late(s) ==
  LET s1 == Wrap_construct_child(s)
      s2 == [s1 EXCEPT !.child_profile =
                          IF user_options = NoProfile THEN "" ELSE user_options]
      s3 == select_profile(s2, s2.child_profile)
  IN IF Raised(s1) THEN s1 ELSE [s3 EXCEPT !.ret = NoRet]

\* ProfilesSpawner.construct_child: no return statement, so it returns None.
Profiles_construct_child(s) ==
  LET s1 == [s EXCEPT !.child_profile =
                         IF user_options = NoProfile THEN "" ELSE user_options]
      s2 == select_profile(s1, s1.child_profile)
      s3 == Wrap_construct_child(s2)
  IN IF Raised(s3) THEN s3 ELSE [s3 EXCEPT !.ret = NoRet]

\* self.construct_child(): the method of the proxy's own class (CustomSpawner's
\* methods are ProfilesSpawner's, line for line).
construct_child(s) ==
  IF kind # "Wrap" THEN Profiles_construct_child(s)
  ELSE Wrap_construct_child(s)

\* WrapSpawner.load_child_class does nothing; ProfilesSpawner.load_child_class
\* takes state['profile'] ('' on KeyError) and selects it.
load_child_class(s, state) ==
  IF kind # "Wrap"
  THEN LET s1 == [s EXCEPT !.child_profile =
                              IF state.has_profile THEN state.profile ELSE ""]
       IN select_profile(s1, s1.child_profile)
  ELSE s

\* state.get('child_conf', {}) as the dict's contents when it is read.
BlobConf(s, state) ==
  IF ~state.has_conf THEN EmptyDict
  ELSE IF state.conf_addr # 0 THEN s.heap[state.conf_addr]
  ELSE state.conf_val

\* WrapSpawner.load_state
load_state(s, state) ==
  LET s1 == load_child_class(s, state)
      s2 == [s1 EXCEPT !.heap[s1.child_config] = UpdateDict(@, BlobConf(s1, state))]
      s3 == [s2 EXCEPT !.child_state =
                          IF state.has_state THEN state.child_state ELSE 0]
      s4 == construct_child(s3)
  IN IF Raised(s4) THEN s4 ELSE [s4 EXCEPT !.ret = NoRet]

\* Mutant: the cached child_state is written to the blob whether or not a target
\* is live.
Wrap_get_state_cached(s) ==
  LET cs == IF s.child_spawner.id # 0 THEN child_get_state(s.child_spawner)
            ELSE s.child_state
  IN [s EXCEPT !.child_state = cs,
               !.ret = [obj |-> 0,
                        blob |-> [NoBlob EXCEPT !.has_conf = TRUE,
                                                !.conf_addr = s.child_config,
                                                !.has_state = TRUE,
                                                !.child_state = cs],
                        val |-> "blob"]]

\* WrapSpawner.get_state
Wrap_get_state(s) ==
  LET b0 == [NoBlob EXCEPT !.has_conf = TRUE, !.conf_addr = s.child_config]
  IN IF s.child_spawner.id # 0
     THEN LET cs == child_get_state(s.child_spawner)
          IN [s EXCEPT !.child_state = cs,
                       !.trace = Append(@, Ev("get_state", s.child_spawner.cls,
                                              EmptyDict, cs)),
                       !.ret = [obj |-> 0,
                                blob |-> [b0 EXCEPT !.has_state = TRUE,
                                                    !.child_state = cs],
                                val |-> "blob"]]
     ELSE [s EXCEPT !.ret = [obj |-> 0, blob |-> b0, val |-> "blob"]]

\* ProfilesSpawner.get_state
Profiles_get_state(s) ==
  LET s1 == Wrap_get_state(s)
  IN [s1 EXCEPT !.ret.blob.has_profile = TRUE,
                !.ret.blob.profile = s1.child_profile]

get_state(s) ==
  IF kind # "Wrap" THEN Profiles_get_state(s) ELSE Wrap_get_state(s)

\* WrapSpawner.clear_state
Wrap_clear_state(s) ==
  LET a == Alloc(s)
      s1 == IF s.child_spawner.id # 0
            THEN [s EXCEPT !.child_spawner = child_clear_state(@),
                           !.trace = Append(@, Ev("clear_state", s.child_spawner.cls,
                                                  EmptyDict, 0))]
            ELSE s
  IN [s1 EXCEPT !.child_state = 0,
                !.child_config = a,
                !.heap[a] = EmptyDict,
                !.child_spawner = NoChild,
                !.ret = NoRet]

\* ProfilesSpawner.clear_state
Profiles_clear_state(s) ==
  [Wrap_clear_state(s) EXCEPT !.child_profile = ""]

clear_state(s) ==
  IF kind # "Wrap" THEN Profiles_clear_state(s) ELSE Wrap_clear_state(s)

\* WrapSpawner.start
start(s, pid) ==
  LET s1 == IF s.child_spawner.id = 0 THEN construct_child(s) ELSE s
  IN IF Raised(s1) THEN s1
     ELSE [s1 EXCEPT !.child_spawner = child_start(@, pid),
                     !.trace = Append(@, Ev("start", s1.child_spawner.cls, EmptyDict,
                                            pid)),
                     !.ret = RetVal("child.start")]

\* Mutant: the target's stop is called without the flag (now=False).
stop_graceful(s, now) ==
  IF s.child_spawner.id # 0
  THEN [s EXCEPT !.trace = Append(@, Ev("stop", "False", EmptyDict, 0)),
                 !.ret = RetVal("child.stop")]
  ELSE [s EXCEPT !.ret = RetVal("done:None")]

\* WrapSpawner.stop: the target's stop(now), or _yield_val()
stop(s, now) ==
  IF s.child_spawner.id # 0
  THEN [s EXCEPT !.trace = Append(@, Ev("stop", IF now THEN "True" ELSE "False",
                                        EmptyDict, 0)),
                 !.ret = RetVal("child.stop")]
  ELSE [s EXCEPT !.ret = RetVal("done:None")]

\* Mutant: poll() makes the target when there is none.
poll_constructs(s, r) ==
  LET s1 == IF s.child_spawner.id = 0 THEN construct_child(s) ELSE s
  IN [s1 EXCEPT !.trace = Append(@, Ev("poll", s1.child_spawner.cls, EmptyDict, 0)),
                !.ret = RetVal(r)]

\* Mutant: without a target poll() answers None, as for a running server.
poll_running(s, r) ==
  IF s.child_spawner.id # 0
  THEN [s EXCEPT !.trace = Append(@, Ev("poll", s.child_spawner.cls, EmptyDict, 0)),
                 !.ret = RetVal(r)]
  ELSE [s EXCEPT !.ret = RetVal("done:None")]

\* WrapSpawner.poll: the target's poll() (r is what it answers), or _yield_val(1)
poll(s, r) ==
  IF s.child_spawner.id # 0
  THEN [s EXCEPT !.trace = Append(@, Ev("poll", s.child_spawner.cls, EmptyDict, 0)),
                 !.ret = RetVal(r)]
  ELSE [s EXCEPT !.ret = RetVal("done:1")]

\* Mutant: without a target progress is empty instead of an error.
progress_empty(s, p) ==
  IF s.child_spawner.id # 0
  THEN [s EXCEPT !.trace = Append(@, Ev("progress", s.child_spawner.cls, EmptyDict, 0)),
                 !.ret = RetVal(p)]
  ELSE [s EXCEPT !.ret = RetVal("done:None")]

\* WrapSpawner.progress (the host's Spawner has one): the target's progress (p), or
\* RuntimeError("No child spawner yet exists - can not get progress yet").
progress(s, p) ==
  IF s.child_spawner.id # 0
  THEN [s EXCEPT !.trace = Append(@, Ev("progress", s.child_spawner.cls, EmptyDict, 0)),
                 !.ret = RetVal(p)]
  ELSE [s EXCEPT !.ret = RetVal(RuntimeError)]

\* ProfilesSpawner.options_from_form: formdata.get('profile', [profiles[0][1]])[0]
options_from_form(formkey) ==
  IF formkey = NoProfile THEN profiles[1].key ELSE formkey

\* ProfilesSpawner._options_form_default: the keys offered, and the one marked first.
options_form ==
  [keys |-> [i \in 1..Len(profiles) |-> profiles[i].key],
   first |-> [i \in 1..Len(profiles) |-> i = 1]]

\* ----------------------------------------- forms of the dynamic Selectors
IndexError == "raise:IndexError"
KeyError == "raise:KeyError"
FormErrors == {IndexError, KeyError}
\* No form was produced yet, and CustomSpawner.empty_form_template.
NoForm == [keys |-> << >>, first |-> << >>, text |-> "unset"]
EmptyForm == [keys |-> << >>, first |-> << >>, text |-> "empty"]
\* The body of DockerProfilesSpawner.options_form and of the non-empty branch of
\* CustomSpawner._options_form_default: one option per entry, temp_keys[0] marked.
render(catalog) ==
  [keys |-> [i \in 1..Len(catalog) |-> catalog[i].key],
   first |-> [i \in 1..Len(catalog) |-> i = 1],
   text |-> "select"]
\* DockerProfilesSpawner.options_form: temp_keys[0] raises IndexError on an empty
\* list.  The result is the form, or the error.
Docker_options_form(catalog) ==
  IF Len(catalog) = 0 THEN [form |-> NoForm, err |-> IndexError]
  ELSE [form |-> render(catalog), err |-> ""]
\* CustomSpawner._options_form_default, after _load_profiles_from_fs()
Custom_options_form_default(catalog) ==
  IF Len(catalog) > 0 THEN render(catalog) ELSE EmptyForm
\* formdata.get('profile', [self.profiles[0][1]])[0]: the default is evaluated
\* whether or not formdata has a 'profile', and raises IndexError on an empty list.
options_from_form_in(catalog, formkey) ==
  IF Len(catalog) = 0 THEN IndexError
  ELSE IF formkey = NoProfile THEN catalog[1].key
  ELSE formkey
\* CustomSpawner.options_from_form, after _load_profiles_from_fs(): first
\* formdata['batch_command'] is read (batch: the form has that field).
Custom_options_from_form(catalog, formkey, batch) ==
  IF ~batch THEN KeyError ELSE options_from_form_in(catalog, formkey)

\* The diagnostics emitted when a catalog is assigned to ProfilesSpawner.profiles:
\* the List trait checks the entries' types and minlen=1, and reports nothing.
profiles_validate(catalog) == {}

\* --------------------------------------------------------------- the state
\* What child_config holds when the proxy is created (a config=True trait).
InitConfs == {EmptyDict, D(2, 0)}
\* No blob is kept.
NoTaken == [cls |-> "None", conf |-> EmptyDict, valid |-> FALSE, live |-> FALSE,
            cleared |-> FALSE]

Op(name, key, blob, flag, ret) ==
  [key |-> key, blob |-> blob, ret |-> ret, flag |-> flag, op |-> name]

Init ==
  /\ kind \in {"Wrap", "Profiles"}
  /\ child_class = DefaultClass
  /\ child_config = FirstFree
  /\ \E c \in InitConfs :
       heap = [a \in Addr |-> IF a \in CatalogAddrs THEN ProfileConf[a]
                              ELSE IF a = FirstFree THEN c ELSE EmptyDict]
  /\ child_state = 0
  /\ child_spawner = NoChild
  /\ child_profile = ""
  /\ user_options = NoProfile
  /\ saved = NoBlob
  /\ taken = NoTaken
  /\ last = Op("init", "", NoBlob, FALSE, NoRet)
  /\ trace = << >>
  /\ log = profiles_validate(profiles)
  /\ source = << >>
  /\ cached = << >>
  /\ form = NoForm
  /\ own = EmptyDict

\* The proxy after an operation that ended in t.  The caller holds a blob it kept
\* across clear_state, until it loads a blob, and drops it at any other operation.
\* A dict nothing refers to any more is gone.
Commit(t, op, keep) ==
  /\ child_class' = t.child_class
  /\ child_config' = t.child_config
  /\ child_state' = t.child_state
  /\ child_spawner' = t.child_spawner
  /\ child_profile' = t.child_profile
  /\ saved' = IF keep THEN t.ret.blob
              ELSE IF op.op = "clear_state" THEN saved
              ELSE NoBlob
  /\ taken' = IF keep
              THEN [cls |-> t.child_class, conf |-> t.heap[t.child_config],
                    valid |-> TRUE, live |-> t.child_spawner.id # 0,
                    cleared |-> FALSE]
              ELSE IF op.op = "clear_state" THEN [taken EXCEPT !.cleared = taken.valid]
              ELSE IF op.op = "load_state" /\ op.blob.conf_addr # 0 THEN taken
              ELSE NoTaken
  /\ heap' = [a \in Addr |->
                IF a \in Refs(t.child_config, saved') \cup Refs(t.child_config, op.blob)
                THEN t.heap[a] ELSE EmptyDict]
  /\ last' = op
  /\ trace' = t.trace
  /\ UNCHANGED << kind, user_options, log, source, cached, form, own >>

\* ----------------------------------------------------------- the operations
ConstructChild ==
  LET t == construct_child(Cur)
  IN Commit(t, Op("construct_child", "", NoBlob, FALSE, t.ret), FALSE)

Start ==
  \E pid \in 1..MaxPid :
    LET t == start(Cur, pid)
    IN Commit(t, Op("start", "", NoBlob, FALSE, t.ret), FALSE)

Stop ==
  \E now \in BOOLEAN :
    LET t == stop(Cur, now)
    IN Commit(t, Op("stop", "", NoBlob, now, t.ret), FALSE)

\* poll(); r is what a live target's poll() answers.
Poll ==
  \E r \in PollResults :
    LET t == poll(Cur, r)
    IN Commit(t, Op("poll", IF child_spawner.id # 0 THEN r ELSE "", NoBlob, FALSE,
                    t.ret), FALSE)

\* The progress property is read; p is the target's progress.
Progress ==
  \E p \in {"child.progress"} :
    LET t == progress(Cur, p)
    IN Commit(t, Op("progress", "", NoBlob, FALSE, t.ret), FALSE)

\* get_state(); the caller keeps the blob or drops it.
GetState ==
  \E keep \in BOOLEAN :
    LET t == get_state(Cur)
    IN Commit(t, Op("get_state", "", NoBlob, keep, t.ret), keep)

\* load_state(blob) with a blob from storage or with the blob the caller kept.
LoadState ==
  \E b \in StoredBlobs \cup ({saved} \ {NoBlob}) :
    LET t == load_state(Cur, b)
    IN Commit(t, Op("load_state", "", b, FALSE, t.ret), FALSE)

ClearState ==
  LET t == clear_state(Cur)
  IN Commit(t, Op("clear_state", "", NoBlob, FALSE, t.ret), FALSE)

SelectProfile ==
  /\ kind = "Profiles"
  /\ \E k \in Keys \cup {""} :
       LET t == select_profile(Cur, k)
       IN Commit(t, Op("select_profile", k, NoBlob, FALSE, NoRet), FALSE)

\* A step of the hub that changes no field of the proxy but user_options.
HubStep(options, op) ==
  /\ kind = "Profiles"
  /\ user_options' = options
  /\ last' = op
  /\ trace' = << >>
  /\ saved' = NoBlob
  /\ taken' = NoTaken
  /\ heap' = [a \in Addr |-> IF a \in Refs(child_config, NoBlob) THEN heap[a]
                             ELSE EmptyDict]
  /\ UNCHANGED << kind, child_class, child_config, child_state, child_spawner,
                  child_profile, log, source, cached, form, own >>

\* A form is submitted: the hub stores options_from_form(formdata) in user_options.
SubmitForm ==
  \E formkey \in Keys \cup {NoProfile} :
    HubStep(options_from_form(formkey),
            Op("options_from_form", formkey, NoBlob, FALSE,
               RetVal(options_from_form(formkey))))

\* A spawn without a form: user_options is {}.
SpawnWithoutForm ==
  HubStep(NoProfile, Op("user_options", NoProfile, NoBlob, FALSE, NoRet))

\* The options form is rendered.
RenderForm ==
  HubStep(user_options,
          Op("options_form", options_form.keys[1], NoBlob, FALSE, RetVal("form")))

Next ==
  \/ ConstructChild
  \/ Start
  \/ Stop
  \/ Poll
  \/ Progress
  \/ GetState
  \/ LoadState
  \/ ClearState
  \/ SelectProfile
  \/ SubmitForm
  \/ SpawnWithoutForm
  \/ RenderForm

Spec == Init /\ [][Next]_vars

\* A proxy configured with a Target Descriptor that cannot be instantiated: a class
\* whose constructor raises, or a bundle the class rejects.
InitFail ==
  /\ kind \in {"Wrap", "Profiles"}
  /\ \E d \in {<< BrokenClass, EmptyDict >>, << DefaultClass, BadConf >>} :
       /\ child_class = d[1]
       /\ heap = [a \in Addr |-> IF a \in CatalogAddrs THEN ProfileConf[a]
                              ELSE IF a = FirstFree THEN d[2] ELSE EmptyDict]
  /\ child_config = FirstFree
  /\ child_state = 0
  /\ child_spawner = NoChild
  /\ child_profile = ""
  /\ user_options = NoProfile
  /\ saved = NoBlob
  /\ taken = NoTaken
  /\ last = Op("init", "", NoBlob, FALSE, NoRet)
  /\ trace = << >>
  /\ log = profiles_validate(profiles)
  /\ source = << >>
  /\ cached = << >>
  /\ form = NoForm
  /\ own = EmptyDict

FailSpec == InitFail /\ [][Next]_vars

\* --------------------------------------------------------- the trait links
\* A step that changes nothing but a trait of the proxy or of the target.
TraitStep(c, values, op) ==
  /\ child_spawner' = c
  /\ own' = values
  /\ last' = op
  /\ trace' = << >>
  /\ UNCHANGED << kind, child_class, child_config, heap, child_state, child_profile,
                  user_options, saved, taken, log, source, cached, form >>

\* The hub, or the proxy itself, assigns v to a trait of the proxy.
SetProxyTrait ==
  \E n \in OptNames, v \in OptVals :
    TraitStep(proxy_setattr(child_spawner, n, v), [own EXCEPT ![n] = v],
              Op("setattr", n, NoBlob, FALSE, NoRet))

\* The target assigns v to a trait of its own.
SetChildTrait ==
  /\ child_spawner.id # 0
  /\ \E n \in OptNames, v \in OptVals :
       TraitStep(child_setattr(child_spawner, n, v), own,
                 Op("child_setattr", n, NoBlob, FALSE, NoRet))

LinkNext ==
  \/ ConstructChild
  \/ ClearState
  \/ SelectProfile
  \/ SetProxyTrait
  \/ SetChildTrait

LinkSpec == Init /\ [][LinkNext]_vars

\* ------------------------------------------------- the dynamic Selectors
\* A step that changes no field of the proxy but user_options, the loaded catalog
\* and the form.
DynStep(options, catalog, f, op) ==
  /\ user_options' = options
  /\ cached' = catalog
  /\ form' = f
  /\ last' = op
  /\ trace' = << >>
  /\ UNCHANGED << kind, child_class, child_config, heap, child_state, child_spawner,
                  child_profile, saved, taken, log, source, own >>

\* The external source changes: an image is pulled or removed, a file is added or
\* deleted.
SourceChanges ==
  \E src \in Sources \ {source} :
    /\ source' = src
    /\ last' = Op("source", "", NoBlob, FALSE, NoRet)
    /\ trace' = << >>
    /\ UNCHANGED << kind, child_class, child_config, heap, child_state,
                    child_spawner, child_profile, user_options, saved, taken, log,
                    cached, form, own >>

\* The hub reads options_form.  DockerProfilesSpawner's is a property; for
\* CustomSpawner it is a trait whose default generator runs at the first read,
\* reloads the catalog and leaves its result as the trait's value.  The flag of
\* the operation tells that the form was rendered by this read.
DynRenderForm ==
  IF kind = "Docker"
  THEN LET r == Docker_options_form(self_profiles)
       IN DynStep(user_options, cached, IF r.err = "" THEN r.form ELSE form,
                  Op("options_form", "", NoBlob, TRUE,
                     RetVal(IF r.err = "" THEN r.form.text ELSE r.err)))
  ELSE IF form = NoForm
       THEN LET catalog == custom_profiles(source)
                f == Custom_options_form_default(catalog)
            IN DynStep(user_options, catalog, f,
                       Op("options_form", "", NoBlob, TRUE, RetVal(f.text)))
       ELSE DynStep(user_options, cached, form,
                    Op("options_form", "", NoBlob, FALSE, RetVal(form.text)))

\* A form is submitted; the hub stores what options_from_form returns in
\* user_options, and nothing when it raises.
DynSubmitForm ==
  \E formkey \in DynKeys \cup {NoProfile}, batch \in BOOLEAN :
    /\ kind = "Docker" => batch
    /\ LET catalog == IF kind = "Docker" THEN self_profiles
                      ELSE custom_profiles(source)
           r == IF kind = "Docker" THEN options_from_form_in(catalog, formkey)
                ELSE Custom_options_from_form(catalog, formkey, batch)
       IN DynStep(IF r \in FormErrors THEN user_options ELSE r,
                  IF kind = "Docker" THEN cached ELSE catalog, form,
                  Op("options_from_form", formkey, NoBlob, batch, RetVal(r)))

\* Blobs a dynamic Selector saved: their 'child_conf' adds no option to the
\* entry's dict, so loading one changes no dict.
DynBlobs ==
  { [NoBlob EXCEPT !.has_conf = TRUE, !.has_state = hs,
                   !.child_state = IF hs THEN MaxPid ELSE 0,
                   !.has_profile = hp, !.profile = IF hp THEN k ELSE ""] :
      hs \in BOOLEAN, hp \in BOOLEAN, k \in DynKeys }

DynLoadState ==
  \E b \in DynBlobs :
    LET t == load_state(Cur, b)
    IN Commit(t, Op("load_state", "", b, FALSE, t.ret), FALSE)

\* A DockerProfilesSpawner or a CustomSpawner as the hub creates it, the external
\* source holding any of the listings.
InitDyn ==
  /\ kind \in {"Docker", "Custom"}
  /\ source \in Sources
  /\ cached = IF kind = "Custom" THEN CustomDefault ELSE << >>
  /\ form = NoForm
  /\ own = EmptyDict
  /\ child_class = DefaultClass
  /\ child_config = FirstFree
  /\ heap = [a \in Addr |-> IF a \in CatalogAddrs THEN ProfileConf[a] ELSE EmptyDict]
  /\ child_state = 0
  /\ child_spawner = NoChild
  /\ child_profile = ""
  /\ user_options = NoProfile
  /\ saved = NoBlob
  /\ taken = NoTaken
  /\ last = Op("init", "", NoBlob, FALSE, NoRet)
  /\ trace = << >>
  /\ log = {}

DynNext ==
  \/ SourceChanges
  \/ DynRenderForm
  \/ DynSubmitForm
  \/ DynLoadState
  \/ Start
  \/ ClearState

DynSpec == InitDyn /\ [][DynNext]_vars

\* ----------------------------------------------------- the directory scan
\* The listings os.listdir may give: up to MaxFiles files, each once, in any
\* order, well-formed or not.
Files == Names \cup Unreadable \cup TooShort
Listings ==
  {l \in UNION {[1..n -> Files] : n \in 0..MaxFiles} :
     \A i, j \in 1..Len(l) : l[i] = l[j] => i = j}

\* A CustomSpawner as the hub creates it, the profile directory holding any of
\* the listings.
InitScan ==
  /\ kind = "Custom"
  /\ source \in Listings
  /\ cached = CustomDefault
  /\ form = NoForm
  /\ own = EmptyDict
  /\ child_class = DefaultClass
  /\ child_config = FirstFree
  /\ heap = [a \in Addr |-> IF a \in CatalogAddrs THEN ProfileConf[a] ELSE EmptyDict]
  /\ child_state = 0
  /\ child_spawner = NoChild
  /\ child_profile = ""
  /\ user_options = NoProfile
  /\ saved = NoBlob
  /\ taken = NoTaken
  /\ last = Op("init", "", NoBlob, FALSE, NoRet)
  /\ trace = << >>
  /\ log = {}

\* The operations that call _load_profiles_from_fs.
ScanNext ==
  \/ DynRenderForm
  \/ DynSubmitForm

ScanSpec == InitScan /\ [][ScanNext]_vars

\* ------------------------------------------------------------------ claims
\* The catalog entries that carry key k.
KeyMatches(k) == {i \in 1..Len(profiles) : profiles[i].key = k}
\* The "init" calls among the calls of the last operation.
Inits(tr) == {i \in 1..Len(tr) : tr[i].ev = "init"}

\* C1: lazy construction.  A step that takes the proxy from no live target to a live
\* target is a start() or a load_state() (or a direct call of construct_child(), the
\* constructor itself); get_state, clear_state, stop, poll, select_profile,
\* options_from_form and the rendering of the form never instantiate a target, and
\* clear_state() leaves none.
C1_LazyConstruction ==
  [][ /\ (child_spawner.id = 0 /\ child_spawner'.id # 0)
         => last'.op \in {"start", "load_state", "construct_child"}
      /\ Inits(trace') # {}
         => last'.op \in {"start", "load_state", "construct_child"}
      /\ last'.op = "clear_state" => child_spawner'.id = 0 ]_vars

\* C1 witness: a load_state() on a proxy has just instantiated the target.
C1_Witness ==
  /\ last.op = "load_state"
  /\ child_spawner.id # 0
  /\ Inits(trace) = {1}

\* C2: construct_child() returns the target, and a second call in a row returns the
\* same instance and instantiates, resets and replays nothing.
C2_Idempotent ==
  [][ (last.op = "construct_child" /\ last'.op = "construct_child")
      => /\ last.ret.obj # 0
         /\ last'.ret.obj = last.ret.obj
         /\ last'.ret.obj = child_spawner'.id
         /\ child_spawner' = child_spawner
         /\ trace' = << >> ]_vars

\* The Target Descriptor: the class and the contents of the configuration bundle.
Descriptor == << child_class, heap[child_config] >>

\* C3: while a target is live, no step other than clear_state() changes the Target
\* Descriptor.
C3_DescriptorStable ==
  [][ (child_spawner.id # 0 /\ last'.op # "clear_state")
      => Descriptor' = Descriptor ]_vars

\* C4: blob = get_state() taken while a target is live, then clear_state(), then
\* load_state(blob): the Target Descriptor is the one in effect when the blob was
\* taken, a target is live and the blob's saved target state is its state.
C4_RoundTrip ==
  (last.op = "load_state" /\ last.blob.conf_addr # 0
     /\ taken.valid /\ taken.live /\ taken.cleared)
  => /\ child_class = taken.cls
     /\ heap[child_config] = taken.conf
     /\ child_spawner.id # 0
     /\ child_spawner.state = last.blob.child_state

\* C5: on a Selector proxy, after load_state(B) the selection key is B's, and a
\* get_state() right after it returns B's key, whatever user_options holds.
C5_KeyRoundTrip ==
  [][ /\ (kind = "Profiles" /\ last'.op = "load_state" /\ last'.blob.has_profile)
         => child_profile' = last'.blob.profile
      /\ (kind = "Profiles" /\ last.op = "load_state" /\ last.blob.has_profile
            /\ last'.op = "get_state")
         => (last'.ret.blob.has_profile
               /\ last'.ret.blob.profile = last.blob.profile) ]_vars

\* C6: select_profile(key) with a key of no catalog entry leaves child_class and
\* child_config (the dict and its contents) as they were; with a key some entry
\* carries it sets them to the class and the dict of an entry with that key.
C6_SelectProfile ==
  [][ last'.op = "select_profile"
      => IF KeyMatches(last'.key) = {}
         THEN /\ child_class' = child_class
              /\ child_config' = child_config
              /\ heap'[child_config'] = heap[child_config]
         ELSE \E i \in KeyMatches(last'.key) :
                /\ child_class' = profiles[i].cls
                /\ child_config' = profiles[i].conf
                /\ heap'[child_config'] = heap[profiles[i].conf] ]_vars

\* C6 witness: an unknown key was selected while an entry's descriptor was in
\* effect, which is still in effect.
C6_Witness ==
  /\ last.op = "select_profile"
  /\ last.key = "zz"
  /\ child_class = "ClsB"
  /\ child_config = profiles[2].conf

\* C7: start() on a Selector proxy with no live target whose user_options hold the
\* key of a catalog entry instantiates exactly one target, of the class of an entry
\* with that key (the first entry for the key options_from_form({}) gives) and
\* with that entry's dict as keyword overrides, before any other call, and the
\* target's start is the last call made.
C7_SelectionBeforeTarget ==
  [][ (kind = "Profiles" /\ child_spawner.id = 0 /\ last'.op = "start"
         /\ KeyMatches(user_options) # {})
      => \E i \in KeyMatches(user_options) :
           /\ user_options = options_from_form(NoProfile) => i = 1
           /\ Inits(trace') = {1}
           /\ trace'[1] = Ev("init", profiles[i].cls, heap[profiles[i].conf], 0)
           /\ trace'[Len(trace')].ev = "start"
           /\ child_spawner'.id # 0
           /\ child_spawner'.cls = profiles[i].cls
           /\ child_spawner'.kwargs = heap[profiles[i].conf]
           /\ last'.ret.val = "child.start" ]_vars

\* C7 witness: a start() has just instantiated the target the form's key "b" names.
C7_Witness ==
  /\ kind = "Profiles"
  /\ last.op = "start"
  /\ user_options = "b"
  /\ Inits(trace) = {1}
  /\ child_spawner.cls = "ClsB"

\* C8: clear_state() first clears a live target's own state and leaves no live
\* target, an empty cached target state, an empty selection key and a reset Target
\* Descriptor: the default class and an empty configuration bundle.
C8_ClearResets ==
  [][ last'.op = "clear_state"
      => /\ child_spawner.id # 0
            => trace' = << Ev("clear_state", child_spawner.cls, EmptyDict, 0) >>
         /\ child_spawner'.id = 0
         /\ child_state' = 0
         /\ child_profile' = ""
         /\ heap'[child_config'] = EmptyDict
         /\ child_class' = DefaultClass ]_vars

\* The first catalog entry that carries key k.
FirstMatch(k) == CHOOSE i \in KeyMatches(k) : \A j \in KeyMatches(k) : i <= j
\* The 'child_conf' entry of a blob (empty when the blob has none).
BlobBundle(b) ==
  IF ~b.has_conf THEN EmptyDict
  ELSE IF b.conf_addr # 0 THEN heap[b.conf_addr] ELSE b.conf_val

\* C9: after load_state(blob) a target is live; when the call instantiated it, it
\* did so from the descriptor the blob gives (on a Selector proxy the class of the
\* first entry with the blob's key, and kwargs that carry the blob's 'child_conf'),
\* then reset it, then gave it the blob's target state when that is not empty.
C9_LoadEager ==
  (last.op = "load_state")
  => /\ child_spawner.id # 0
     /\ Inits(trace) # {}
        => /\ Len(trace) >= 2
           /\ trace[1].ev = "init"
           /\ (kind = "Profiles" /\ last.blob.has_profile
                 /\ KeyMatches(last.blob.profile) # {})
              => trace[1].cls = profiles[FirstMatch(last.blob.profile)].cls
           /\ \A k \in OptNames :
                 BlobBundle(last.blob)[k] # 0
                 => trace[1].kw[k] = BlobBundle(last.blob)[k]
           /\ trace[2] = Ev("clear_state", trace[1].cls, EmptyDict, 0)
           /\ IF last.blob.has_state /\ last.blob.child_state # 0
              THEN /\ Len(trace) = 3
                   /\ trace[3] = Ev("load_state", trace[1].cls, EmptyDict,
                                    last.blob.child_state)
              ELSE Len(trace) = 2

\* C10 as claimed: on a Selector proxy the mapping get_state() returns holds
\* 'child_conf', 'child_state' and 'profile', and with a live target 'child_state'
\* is the target's own get_state().
C10_AllThreeEntries ==
  (kind = "Profiles" /\ last.op = "get_state")
  => /\ last.ret.blob.has_conf
     /\ last.ret.blob.has_state
     /\ last.ret.blob.has_profile
     /\ child_spawner.id # 0 => last.ret.blob.child_state = child_spawner.state

\* C10 as amended: the mapping always holds 'child_conf' (the proxy's child_config
\* dict) and 'profile' (child_profile); it holds 'child_state' exactly when a
\* target is live, and then it is the target's own get_state(), which the proxy
\* also caches.
C10_BlobEntries ==
  (kind = "Profiles" /\ last.op = "get_state")
  => /\ last.ret.blob.has_conf
     /\ last.ret.blob.conf_addr = child_config
     /\ last.ret.blob.has_profile
     /\ last.ret.blob.profile = child_profile
     /\ last.ret.blob.has_state <=> child_spawner.id # 0
     /\ child_spawner.id # 0
        => /\ last.ret.blob.child_state = child_spawner.state
           /\ child_state = child_spawner.state

\* C10 witness: get_state() on a Selector proxy whose live target has a state.
C10_Witness ==
  /\ kind = "Profiles"
  /\ last.op = "get_state"
  /\ child_spawner.id # 0
  /\ child_spawner.state = MaxPid
  /\ last.ret.blob.child_state = MaxPid

\* C11: poll() on a proxy with no live target completes at once with the exit
\* status 1, calls nothing and creates no target; with a live target it calls the
\* target's poll() once and returns what that answers.
C11_Poll ==
  [][ last'.op = "poll"
      => /\ child_spawner' = child_spawner
         /\ IF child_spawner.id = 0
            THEN /\ last'.ret.val = "done:1"
                 /\ trace' = << >>
            ELSE /\ last'.ret.val = last'.key
                 /\ last'.ret.val \in PollResults
                 /\ trace' = << Ev("poll", child_spawner.cls, EmptyDict, 0) >> ]_vars

\* C11 witness: poll() has just answered 1 on a proxy whose target was discarded.
C11_Witness ==
  /\ last.op = "poll"
  /\ child_spawner.id = 0
  /\ last.ret.val = "done:1"
  /\ child_class # DefaultClass

\* C12: stop(now) on a proxy with no live target calls nothing, completes at once
\* and changes no field of the proxy; with a live target it calls the target's stop
\* once, with the same flag, and returns its handle, and the target and the Target
\* Descriptor stay as they are.
C12_Stop ==
  [][ last'.op = "stop"
      => /\ child_spawner' = child_spawner
         /\ child_class' = child_class
         /\ child_config' = child_config
         /\ heap'[child_config'] = heap[child_config]
         /\ child_state' = child_state
         /\ child_profile' = child_profile
         /\ IF child_spawner.id = 0
            THEN /\ trace' = << >>
                 /\ last'.ret.val = "done:None"
            ELSE /\ trace' = << Ev("stop", IF last'.flag THEN "True" ELSE "False",
                                   EmptyDict, 0) >>
                 /\ last'.ret.val = "child.stop" ]_vars

\* C12 witness: stop(now=True) has just been forwarded to a live target.
C12_Witness ==
  /\ last.op = "stop"
  /\ last.flag
  /\ child_spawner.id # 0
  /\ Len(trace) = 1

\* C13: on a Selector proxy whose catalog carries some key more than once, a
\* warning-level diagnostic names that key.
C13_DuplicateReported ==
  kind = "Profiles"
  => \A i \in 1..Len(profiles) :
       Cardinality(KeyMatches(profiles[i].key)) > 1 => profiles[i].key \in log

\* C14: select_profile(key) with a key one or more entries carry sets child_class
\* and child_config to the class and the dict of the first of them.
C14_FirstMatch ==
  [][ (last'.op = "select_profile" /\ KeyMatches(last'.key) # {})
      => /\ child_class' = profiles[FirstMatch(last'.key)].cls
         /\ child_config' = profiles[FirstMatch(last'.key)].conf ]_vars

\* C14 witness: the key "a" of the first and the third entry was selected, and the
\* first entry's descriptor is in effect.
C14_Witness ==
  /\ last.op = "select_profile"
  /\ last.key = "a"
  /\ Cardinality(KeyMatches("a")) = 2
  /\ child_class = profiles[1].cls
  /\ child_config = profiles[1].conf

\* The calls of the last operation whose constructor raised.
FailedInits(tr) == {i \in Inits(tr) : ~Instantiable(tr[i].cls, tr[i].kw)}

\* C17: when the constructor raises inside construct_child(), then start(),
\* load_state() and construct_child() end with that error, the failed instantiation
\* is the only one and the last call made (no start is forwarded, nothing is
\* retried), and the proxy has no target.
C17_ConstructionFails ==
  (last.op \in {"start", "load_state", "construct_child"} /\ FailedInits(trace) # {})
  => /\ last.ret.val = CtorError
     /\ Inits(trace) = {Len(trace)}
     /\ \A i \in 1..Len(trace) : trace[i].ev # "start"
     /\ child_spawner.id = 0

\* C17 witness: a start() on a Selector proxy has just failed on the class of the
\* configured descriptor.
C17_Witness ==
  /\ kind = "Profiles"
  /\ last.op = "start"
  /\ last.ret.val = CtorError
  /\ FailedInits(trace) = {1}
  /\ child_class = BrokenClass

\* C18: reading progress on a proxy with no live target raises RuntimeError, calls
\* nothing and changes no field; with a live target it returns the target's progress.
C18_Progress ==
  [][ last'.op = "progress"
      => /\ child_spawner' = child_spawner
         /\ child_class' = child_class
         /\ child_config' = child_config
         /\ heap'[child_config'] = heap[child_config]
         /\ child_state' = child_state
         /\ child_profile' = child_profile
         /\ IF child_spawner.id = 0
            THEN /\ last'.ret.val = RuntimeError
                 /\ trace' = << >>
            ELSE /\ last'.ret.val = "child.progress"
                 /\ trace' = << Ev("progress", child_spawner.cls, EmptyDict, 0) >> ]_vars

\* C18 witness: progress was read on a proxy with no target and raised.
C18_Witness ==
  /\ last.op = "progress"
  /\ child_spawner.id = 0
  /\ last.ret.val = RuntimeError

\* C15: whenever a dynamic Selector renders its options form, an empty catalog
\* gives the "nothing available" fragment and no error, and a non-empty catalog
\* gives a form whose first entry, and no other, is marked as the default.
C15_FormOfEmptyCatalog ==
  (last.op = "options_form" /\ last.flag) =>
     IF Len(self_profiles) = 0
     THEN last.ret.val = EmptyForm.text
     ELSE /\ last.ret.val = "select"
          /\ form.keys = [i \in 1..Len(self_profiles) |-> self_profiles[i].key]
          /\ \A i \in 1..Len(form.first) : form.first[i] <=> i = 1

\* C16: options_from_form of a dynamic Selector, given every field its own form
\* carries, returns the submitted 'profile' key when one was submitted, whatever
\* the catalog holds at that moment, and otherwise the key of the first entry
\* of the catalog.
C16_OptionsFromForm ==
  (last.op = "options_from_form" /\ last.flag) =>
     IF last.key # NoProfile
     THEN last.ret.val = last.key /\ user_options = last.key
     ELSE Len(self_profiles) > 0 => last.ret.val = self_profiles[1].key

\* The catalog of a dynamic Selector as the external source gives it now.
Recomputed ==
  IF kind = "Docker" THEN default_profiles \o docker_profiles(source)
  ELSE custom_profiles(source)

\* C20: a dynamic Selector uses the catalog as recomputed from the external
\* source at that moment: a form it renders offers the keys the source lists
\* now, and load_state of a blob whose 'profile' is a key the source lists now
\* instantiates the class of that entry.
C20_NeverCached ==
  /\ (last.op = "options_form" /\ Len(Recomputed) > 0) =>
        form.keys = [i \in 1..Len(Recomputed) |-> Recomputed[i].key]
  /\ ( /\ last.op = "load_state"
       /\ last.blob.has_profile
       /\ \E i \in 1..Len(Recomputed) : Recomputed[i].key = last.blob.profile
       /\ Inits(trace) # {} ) =>
        \A j \in Inits(trace) :
          \E i \in 1..Len(Recomputed) :
            /\ Recomputed[i].key = last.blob.profile
            /\ trace[j].cls = Recomputed[i].cls

\* The target keeps, for the keys of the bundle it was made with, the values no
\* write of the proxy touches: across an operation of the proxy a live target's
\* value stays, and a target just made has the bundle's value.
BundleKeysUntouched ==
  (child_spawner'.id # 0 /\ last'.op # "child_setattr") =>
     \A n \in OptNames :
       child_spawner'.kwargs[n] # 0 =>
         child_spawner'.traits[n] = IF child_spawner.id # 0
                                    THEN child_spawner.traits[n]
                                    ELSE child_spawner'.kwargs[n]
\* A write on the target leaves every value of the proxy as it was.
TargetWriteStaysLocal == last'.op = "child_setattr" => own' = own
\* The step is a write of the proxy to a trait both have and the target's bundle
\* does not name, with a target live.
ProxyWrites ==
  /\ last'.op = "setattr"
  /\ child_spawner'.id # 0
  /\ child_spawner'.kwargs[last'.key] = 0

\* C19 (as amended): the links are one-way and leave the bundle's keys out.
\* With a target live, each write of the proxy that changes its value of a trait
\* both have, and that the bundle the target was made with does not name, makes
\* the target's value equal to the written value; a write on the target never
\* changes a value of the proxy; and the proxy never writes a trait the bundle
\* names on the target, neither when it makes the links nor later.
C19_OneWayLinks ==
  [][ /\ (ProxyWrites /\ own'[last'.key] # own[last'.key]) =>
           child_spawner'.traits[last'.key] = own'[last'.key]
      /\ TargetWriteStaysLocal
      /\ BundleKeysUntouched ]_vars

\* C19 witness: the proxy wrote a non-default value to a linked trait and the
\* target has it, while for a key of its bundle the target holds the bundle's
\* value and the proxy another one.
C19_Witness ==
  /\ last.op = "setattr"
  /\ child_spawner.id # 0
  /\ child_spawner.kwargs[last.key] = 0
  /\ own[last.key] # 0
  /\ child_spawner.traits[last.key] = own[last.key]
  /\ \E n \in OptNames :
       /\ child_spawner.kwargs[n] # 0
       /\ child_spawner.traits[n] = child_spawner.kwargs[n]
       /\ own[n] \notin {0, child_spawner.kwargs[n]}

\* C19 (as stated): the same, for each write of the proxy, whether or not it
\* changes the proxy's value.
C19_EachWrite ==
  [][ /\ ProxyWrites => child_spawner'.traits[last'.key] = own'[last'.key]
      /\ TargetWriteStaysLocal
      /\ BundleKeysUntouched ]_vars

\* The well-formed files of a listing, in the listing's order.
RECURSIVE WellFormedFiles(_)
WellFormedFiles(files) ==
  IF files = << >> THEN << >>
  ELSE (IF WellFormed(Head(files)) THEN << Head(files) >> ELSE << >>)
       \o WellFormedFiles(Tail(files))

\* C21: when CustomSpawner has scanned the profile directory, its catalog has
\* one entry for every well-formed file of the listing, also for those listed
\* after a malformed one, in the listing's order.
C21_ScanSkipsMalformed ==
  (last.op = "options_from_form" \/ (last.op = "options_form" /\ last.flag)) =>
     [i \in 1..Len(cached) |-> cached[i].display] = WellFormedFiles(source)

\* C22: on a ProfilesSpawner with a static catalog no operation modifies the
\* catalog or a blob get_state() returned: the dict of every catalog entry holds
\* what it was configured with (keys and classes sit in tuples nothing can
\* change), and the 'child_conf' of a blob the caller kept holds what it held
\* when the blob was returned.
C22_CatalogUnmodified ==
  kind = "Profiles" =>
    /\ \A i \in 1..Len(profiles) :
         heap[profiles[i].conf] = ProfileConf[profiles[i].conf]
    /\ (saved.conf_addr # 0 /\ taken.valid) => heap[saved.conf_addr] = taken.conf
    /\ (last.op = "load_state" /\ last.blob.conf_addr # 0 /\ taken.valid) =>
         heap[last.blob.conf_addr] = taken.conf

====
